---- MODULE Spec2Model ----
(***************************************************************************)
(* Model of the cocs-bot Cloudflare Worker: the webhook handler of         *)
(* src/index.js, the payload normalizer and validator of src/cloudflare.js *)
(* and the notification renderer and REST client of src/discord.js.        *)
(*                                                                         *)
(* JavaScript values are tagged records [t, v].  Numbers are fixed-point   *)
(* with one decimal digit (v = 57 is 5.7), so that Math.round and          *)
(* Math.floor are real conversions.  Objects are ordered sequences of      *)
(* <<key, value>> pairs (JavaScript keeps insertion order).  TLA+ strings  *)
(* admit neither the backtick nor non-ASCII characters: BT stands for the  *)
(* backtick and the three status glyphs are written as :name: codes.       *)
(***************************************************************************)
EXTENDS Integers, Sequences, FiniteSets, TLC

(***************************************************************************)
(* Bounds of the input generators.                                         *)
(***************************************************************************)
MaxFields == 2

(***************************************************************************)
(* JavaScript values and the operators the code applies to them.           *)
(***************************************************************************)
Undefined == [t |-> "undefined", v |-> 0]
Null == [t |-> "null", v |-> 0]
Str(s) == [t |-> "string", v |-> s]
Num(n) == [t |-> "number", v |-> n]
Bool(b) == [t |-> "boolean", v |-> b]
Obj(pairs) == [t |-> "object", v |-> pairs]
Arr(elems) == [t |-> "array", v |-> elems]

BT == "'"

\* ToBoolean: what `!x`, `x || y`, `x && y` and `if (x)` test.
Truthy(x) ==
    CASE x.t = "undefined" -> FALSE
      [] x.t = "null" -> FALSE
      [] x.t = "boolean" -> x.v
      [] x.t = "number" -> x.v # 0
      [] x.t = "string" -> x.v # ""
      [] OTHER -> TRUE

\* a || b
Or(a, b) == IF Truthy(a) THEN a ELSE b

\* typeof x
typeof(x) ==
    CASE x.t = "array" -> "object"
      [] x.t = "null" -> "object"
      [] OTHER -> x.t

\* a === b against a string literal (objects are never === a literal)
StrictEq(a, b) == a.t = b.t /\ a.t \notin {"object", "array"} /\ a.v = b.v

\* x.k would throw a TypeError
GetThrows(x) == x.t \in {"undefined", "null"}

\* x.k for the keys the code reads: none of them is a member of a built-in
\* prototype, so a primitive or an array yields undefined.
Get(x, k) ==
    IF x.t # "object" THEN Undefined
    ELSE LET idx == {i \in DOMAIN x.v : x.v[i][1] = k}
         IN IF idx = {} THEN Undefined ELSE x.v[CHOOSE i \in idx : TRUE][2]

\* x?.k
OptGet(x, k) == IF GetThrows(x) THEN Undefined ELSE Get(x, k)

\* Number to string, for the non-negative numbers of the model.
NumToString(n) ==
    IF n % 10 = 0 THEN ToString(n \div 10)
    ELSE ToString(n \div 10) \o "." \o ToString(n % 10)

RECURSIVE ToStr(_)
RECURSIVE JoinStr(_, _)
\* elems.join(sep) with each element converted by ToStr
JoinStr(elems, sep) ==
    IF elems = << >> THEN ""
    ELSE IF Len(elems) = 1 THEN ToStr(elems[1])
    ELSE ToStr(elems[1]) \o sep \o JoinStr(Tail(elems), sep)

\* String(x): the conversion of a template literal `${x}`
ToStr(x) ==
    CASE x.t = "string" -> x.v
      [] x.t = "number" -> NumToString(x.v)
      [] x.t = "boolean" -> IF x.v THEN "true" ELSE "false"
      [] x.t = "null" -> "null"
      [] x.t = "undefined" -> "undefined"
      [] x.t = "array" -> JoinStr(x.v, ",")
      [] OTHER -> "[object Object]"

\* s.substring(0, n)
Substring0(s, n) == IF Len(s) <= n THEN s ELSE SubSeq(s, 1, n)

Spaces(n) == [i \in 1..n |-> " "]

RECURSIVE Concat(_)
Concat(strs) == IF strs = << >> THEN "" ELSE strs[1] \o Concat(Tail(strs))

\* The members JSON.stringify keeps: those whose value is not undefined.
RECURSIVE Defined(_)
Defined(pairs) ==
    IF pairs = << >> THEN << >>
    ELSE IF pairs[1][2].t = "undefined" THEN Defined(Tail(pairs))
    ELSE <<pairs[1]>> \o Defined(Tail(pairs))

\* The line break and indentation JSON.stringify writes at nesting depth d
Pad(gap, d) == IF gap = 0 THEN "" ELSE "\n" \o Concat(Spaces(gap * d))

\* JSON.stringify(x, null, gap) at nesting depth `depth`; gap = 0 is the
\* compact form.  Strings of the model hold no character that needs escaping.
RECURSIVE Stringify(_, _, _)
\* The members i, i + 1, ... of an array or (keyed) of an object
RECURSIVE StringifyFrom(_, _, _, _, _)
StringifyFrom(ms, i, keyed, gap, depth) ==
    LET item ==
            IF keyed
            THEN "\"" \o ms[i][1] \o "\"" \o (IF gap = 0 THEN ":" ELSE ": ")
                 \o Stringify(ms[i][2], gap, depth)
            ELSE Stringify(ms[i], gap, depth)
    IN IF i >= Len(ms) THEN item
       ELSE item \o "," \o Pad(gap, depth)
            \o StringifyFrom(ms, i + 1, keyed, gap, depth)

Stringify(x, gap, depth) ==
    CASE x.t = "string" -> "\"" \o x.v \o "\""
      [] x.t = "number" -> NumToString(x.v)
      [] x.t = "boolean" -> IF x.v THEN "true" ELSE "false"
      [] x.t = "null" -> "null"
      [] x.t = "undefined" -> "null"
      [] x.t = "array" ->
           IF x.v = << >> THEN "[]"
           ELSE "[" \o Pad(gap, depth + 1)
                \o StringifyFrom(x.v, 1, FALSE, gap, depth + 1)
                \o Pad(gap, depth) \o "]"
      [] OTHER ->
           IF Defined(x.v) = << >> THEN "{}"
           ELSE "{" \o Pad(gap, depth + 1)
                \o StringifyFrom(Defined(x.v), 1, TRUE, gap, depth + 1)
                \o Pad(gap, depth) \o "}"

JSONstringify(x) == Stringify(x, 0, 0)

(***************************************************************************)
(* src/cloudflare.js: the payload normalizer.                              *)
(***************************************************************************)
\* const deployment = payload.deployment || payload;
deploymentOf(payload) == Or(Get(payload, "deployment"), payload)

resolve_id(deployment) ==
    Or(Get(deployment, "id"), Get(deployment, "deployment_id"))

resolve_projectName(deployment, payload) ==
    Or(Or(Get(deployment, "project_name"), Get(payload, "project_name")),
       Str("tlc-survey"))

resolve_environment(deployment) ==
    Or(Get(deployment, "environment"), Str("production"))

\* deployment.latest_stage?.status || deployment.status
stageOrStatus(deployment) ==
    Or(OptGet(Get(deployment, "latest_stage"), "status"),
       Get(deployment, "status"))

resolve_status(deployment) == Or(stageOrStatus(deployment), Str("unknown"))

\* isSuccess computed with the two status sources in the other order
resolve_isSuccess_statusFirst(deployment) ==
    StrictEq(Or(Get(deployment, "status"),
                OptGet(Get(deployment, "latest_stage"), "status")),
             Str("success"))

resolve_isSuccess(deployment) ==
    StrictEq(stageOrStatus(deployment), Str("success"))

resolve_isFailure(deployment) ==
    StrictEq(stageOrStatus(deployment), Str("failure"))

resolve_branch(deployment) ==
    Or(Or(Get(deployment, "branch"), Get(deployment, "git_branch")),
       Str("main"))

resolve_commitHash(deployment) ==
    Or(Or(Get(deployment, "commit_hash"), Get(deployment, "git_commit_hash")),
       Str(""))

resolve_commitMessage(deployment) ==
    Or(Get(deployment, "commit_message"), Str(""))

resolve_commitAuthor(deployment) ==
    Or(Or(Get(deployment, "commit_author"), Get(deployment, "author")),
       Str(""))

resolve_deploymentUrl(deployment) ==
    Or(Or(Get(deployment, "url"), Get(deployment, "deployment_url")), Str(""))

resolve_buildLogsUrl(deployment) ==
    Or(Or(Get(deployment, "build_logs_url"), Get(deployment, "logs_url")),
       Str(""))

resolve_commitUrl(deployment) == Or(Get(deployment, "commit_url"), Str(""))

resolve_buildTime(deployment) ==
    Or(Or(Get(deployment, "build_time"), Get(deployment, "duration")), Null)

resolve_createdAt(deployment, now) ==
    Or(Or(Get(deployment, "created_at"), Get(deployment, "created_on")),
       Str(now))

resolve_error(deployment) ==
    Or(Or(Get(deployment, "error"), Get(deployment, "build_error")), Null)

resolve_errorMessage(deployment) ==
    Or(Or(Get(deployment, "error_message"), Get(deployment, "message")), Null)

resolve_stages(deployment) == Or(Get(deployment, "stages"), Arr(<< >>))

resolve_latestStage(deployment) == Or(Get(deployment, "latest_stage"), Null)

\* parseDeploymentEvent throws a TypeError on payload.deployment
parseDeploymentEventThrows(payload) == GetThrows(payload)

\* The record parseDeploymentEvent returns; `now` is new Date().toISOString().
parseDeploymentEvent(payload, now) ==
    LET deployment == deploymentOf(payload)
    IN [id |-> resolve_id(deployment),
        projectName |-> resolve_projectName(deployment, payload),
        environment |-> resolve_environment(deployment),
        status |-> resolve_status(deployment),
        isSuccess |-> resolve_isSuccess(deployment),
        isFailure |-> resolve_isFailure(deployment),
        branch |-> resolve_branch(deployment),
        commitHash |-> resolve_commitHash(deployment),
        commitMessage |-> resolve_commitMessage(deployment),
        commitAuthor |-> resolve_commitAuthor(deployment),
        deploymentUrl |-> resolve_deploymentUrl(deployment),
        buildLogsUrl |-> resolve_buildLogsUrl(deployment),
        commitUrl |-> resolve_commitUrl(deployment),
        buildTime |-> resolve_buildTime(deployment),
        createdAt |-> resolve_createdAt(deployment, now),
        error |-> resolve_error(deployment),
        errorMessage |-> resolve_errorMessage(deployment),
        stages |-> resolve_stages(deployment),
        latestStage |-> resolve_latestStage(deployment),
        raw |-> payload]

\* const hasDeployment = payload.deployment || payload.deployment_id || payload.id;
hasDeployment(payload) ==
    Or(Or(Get(payload, "deployment"), Get(payload, "deployment_id")),
       Get(payload, "id"))

\* const hasStatus = payload.status || payload.deployment?.status
\*                   || payload.latest_stage?.status;
hasStatus(payload) ==
    Or(Or(Get(payload, "status"),
          OptGet(Get(payload, "deployment"), "status")),
       OptGet(Get(payload, "latest_stage"), "status"))

\* The validator without the status-like fields
isValidPayload_noStatus(payload) ==
    IF ~Truthy(payload) \/ typeof(payload) # "object" THEN FALSE
    ELSE Truthy(hasDeployment(payload))

isValidPayload(payload) ==
    IF ~Truthy(payload) \/ typeof(payload) # "object" THEN FALSE
    ELSE Truthy(Or(hasDeployment(payload), hasStatus(payload)))

\* getShortCommitHash (exported, not called by the handler)
getShortCommitHash(commitHash) ==
    IF ~Truthy(commitHash) THEN "unknown" ELSE Substring0(commitHash.v, 7)

\* Math.round of a non-negative fixed-point number
MathRound(n) == (n + 5) \div 10

\* formatBuildTime(seconds): numbers, and the values that coerce to NaN
\* (non-numeric strings, objects); true coerces to 1.
formatBuildTime(seconds) ==
    IF ~Truthy(seconds) THEN "N/A"
    ELSE IF seconds.t = "boolean" THEN "1s"
    ELSE IF seconds.t # "number" THEN "NaNm NaNs"
    ELSE IF seconds.v < 600 THEN ToString(MathRound(seconds.v)) \o "s"
    ELSE LET minutes == seconds.v \div 600
             remainingSeconds == MathRound(seconds.v % 600)
         IN IF remainingSeconds = 0 THEN ToString(minutes) \o "m"
            ELSE ToString(minutes) \o "m " \o ToString(remainingSeconds) \o "s"

getCommitUrl(repoOwner, repoName, commitHash) ==
    IF ~Truthy(commitHash) THEN Str("")
    ELSE Str("https://github.com/" \o ToStr(repoOwner) \o "/"
             \o ToStr(repoName) \o "/commit/" \o ToStr(commitHash))

(***************************************************************************)
(* src/discord.js: the notification renderer and the REST client.          *)
(***************************************************************************)
DISCORD_API_BASE == "https://discord.com/api/v10"

\* An integer as a JavaScript number
JsInt(n) == Num(n * 10)

Field(name, value, inline) ==
    Obj(<< <<"name", Str(name)>>, <<"value", value>>,
           <<"inline", Bool(inline)>> >>)

\* x.length > n for the values that have a length
LongerThan(x, n) == x.t \in {"string", "array"} /\ Len(x.v) > n

\* The color with red, not yellow, for every build that did not succeed
embedColor_redUnlessSuccess(info) ==
    IF info.isSuccess THEN JsInt(65280) ELSE JsInt(16711680)

embedColor(info) ==
    IF info.isSuccess THEN JsInt(65280)
    ELSE IF info.isFailure THEN JsInt(16711680) ELSE JsInt(16776960)

statusEmoji(info) ==
    IF info.isSuccess THEN ":white_check_mark:"
    ELSE IF info.isFailure THEN ":x:" ELSE ":warning:"

statusText(info) ==
    IF info.isSuccess THEN "Success"
    ELSE IF info.isFailure THEN "Failure" ELSE "Unknown"

embedDescription(info) ==
    IF info.isFailure /\ Truthy(info.errorMessage)
    THEN "**Error:** " \o ToStr(info.errorMessage)
    ELSE IF info.isSuccess THEN "Build completed successfully"
    ELSE "Build status: " \o ToStr(info.status)

branchField(info) ==
    IF Truthy(info.branch)
    THEN <<Field("Branch", Str(BT \o ToStr(info.branch) \o BT), TRUE)>>
    ELSE << >>

\* Evaluated only when commitHash is a string (see createBuildEmbedThrows).
commitField(info) ==
    IF Truthy(info.commitHash)
    THEN LET shortHash == Substring0(info.commitHash.v, 7)
             commitText ==
                 IF Truthy(info.commitUrl)
                 THEN "[" \o BT \o shortHash \o BT \o "]("
                      \o ToStr(info.commitUrl) \o ")"
                 ELSE BT \o shortHash \o BT
         IN <<Field("Commit", Str(commitText), TRUE)>>
    ELSE << >>

buildTimeField(info) ==
    IF info.buildTime # Null
    THEN <<Field("Build Time", Str(formatBuildTime(info.buildTime)), TRUE)>>
    ELSE << >>

authorField(info) ==
    IF Truthy(info.commitAuthor)
    THEN <<Field("Author", info.commitAuthor, TRUE)>>
    ELSE << >>

\* The commit message cut at 200 characters before the ellipsis is added
commitMessageField_cutAt200(info) ==
    IF Truthy(info.commitMessage)
    THEN LET truncatedMessage ==
                 IF LongerThan(info.commitMessage, 200)
                 THEN Str(Substring0(info.commitMessage.v, 200) \o "...")
                 ELSE info.commitMessage
         IN <<Field("Commit Message", truncatedMessage, FALSE)>>
    ELSE << >>

commitMessageField(info) ==
    IF Truthy(info.commitMessage)
    THEN LET truncatedMessage ==
                 IF LongerThan(info.commitMessage, 200)
                 THEN Str(Substring0(info.commitMessage.v, 197) \o "...")
                 ELSE info.commitMessage
         IN <<Field("Commit Message", truncatedMessage, FALSE)>>
    ELSE << >>

deploymentField(info) ==
    IF Truthy(info.deploymentUrl)
    THEN <<Field("Deployment",
                 Str("[View Deployment](" \o ToStr(info.deploymentUrl) \o ")"),
                 TRUE)>>
    ELSE << >>

buildLogsField(info) ==
    IF Truthy(info.buildLogsUrl)
    THEN <<Field("Build Logs",
                 Str("[View Logs](" \o ToStr(info.buildLogsUrl) \o ")"),
                 TRUE)>>
    ELSE << >>

errorField(info) ==
    IF info.isFailure /\ Truthy(info.error)
    THEN LET errorText ==
                 IF typeof(info.error) = "string"
                 THEN Substring0(info.error.v, 1000)
                 ELSE Substring0(JSONstringify(info.error), 1000)
         IN <<Field("Error Details",
                    Str(BT \o BT \o BT \o errorText \o BT \o BT \o BT), FALSE)>>
    ELSE << >>

\* createBuildEmbed throws a TypeError: commitHash.substring or
\* commitMessage.substring is not a function.
createBuildEmbedThrows(info) ==
    \/ Truthy(info.commitHash) /\ info.commitHash.t # "string"
    \/ /\ Truthy(info.commitMessage)
       /\ LongerThan(info.commitMessage, 200)
       /\ info.commitMessage.t # "string"

\* The fields in the order of the README's list: Author before Build Time
embedFields_readmeOrder(info) ==
    branchField(info) \o commitField(info) \o authorField(info)
    \o buildTimeField(info) \o commitMessageField(info)
    \o deploymentField(info) \o buildLogsField(info) \o errorField(info)

embedFields(info) ==
    branchField(info) \o commitField(info) \o buildTimeField(info)
    \o authorField(info) \o commitMessageField(info) \o deploymentField(info)
    \o buildLogsField(info) \o errorField(info)

createBuildEmbed(info) ==
    Obj(<< <<"title", Str(statusEmoji(info) \o " Build " \o statusText(info)
                          \o " - " \o ToStr(info.projectName))>>,
           <<"description", Str(embedDescription(info))>>,
           <<"color", embedColor(info)>>,
           <<"timestamp", info.createdAt>>,
           <<"fields", Arr(embedFields(info))>>,
           <<"footer", Obj(<< <<"text",
                 Str("Deployment ID: " \o ToStr(Or(info.id, Str("unknown"))))>> >>)>>
        >>)

getHeaders(token) ==
    [Authorization |-> "Bot " \o ToStr(token),
     ContentType |-> "application/json",
     UserAgent |-> "COCS-Bot/1.0"]

\* The request sendMessage hands to fetch
sendMessageRequest(token, channelId, messageData) ==
    [url |-> DISCORD_API_BASE \o "/channels/" \o ToStr(channelId) \o "/messages",
     method |-> "POST",
     headers |-> getHeaders(token),
     body |-> JSONstringify(messageData)]

\* sendBuildNotification: the message sendMessage is called with
buildNotificationMessage(info) ==
    Obj(<< <<"embeds", Arr(<<createBuildEmbed(info)>>)>> >>)

\* What the chat API can answer: a 2xx response with a JSON body, a 2xx
\* response whose body response.json() rejects, a non-2xx response, or no
\* response at all (fetch rejects).
FetchOutcomes ==
    {[kind |-> "response", status |-> 200, statusText |-> "OK",
      text |-> "{\"id\":\"1\"}", json |-> TRUE],
     [kind |-> "response", status |-> 204, statusText |-> "No Content",
      text |-> "", json |-> FALSE],
     [kind |-> "response", status |-> 403, statusText |-> "Forbidden",
      text |-> "{\"message\":\"Missing Permissions\"}", json |-> TRUE],
     [kind |-> "response", status |-> 500, statusText |-> "Internal Server Error",
      text |-> "upstream", json |-> FALSE],
     [kind |-> "rejected", status |-> 0, statusText |-> "",
      text |-> "network error", json |-> FALSE]}

\* fetch has not settled
NoOutcome ==
    [kind |-> "none", status |-> 0, statusText |-> "", text |-> "",
     json |-> FALSE]

\* response.ok
ResponseOk(o) == o.kind = "response" /\ o.status >= 200 /\ o.status <= 299

\* The message of the error sendMessage throws, "" when it returns
sendMessageError(o) ==
    IF o.kind = "rejected" THEN o.text
    ELSE IF ~ResponseOk(o)
    THEN "Discord API error: " \o ToString(o.status) \o " " \o o.statusText
         \o " - " \o o.text
    ELSE IF ~o.json THEN "Unexpected end of JSON input"
    ELSE ""

(***************************************************************************)
(* src/index.js: the webhook handler.                                      *)
(***************************************************************************)
RECURSIVE BitXor(_, _)
BitXor(a, b) ==
    IF a = 0 /\ b = 0 THEN 0
    ELSE (((a % 2) + (b % 2)) % 2) + 2 * BitXor(a \div 2, b \div 2)

RECURSIVE BitOr(_, _)
BitOr(a, b) ==
    IF a = 0 /\ b = 0 THEN 0
    ELSE (IF (a % 2) = 1 \/ (b % 2) = 1 THEN 1 ELSE 0)
         + 2 * BitOr(a \div 2, b \div 2)

LowerCase == "abcdefghijklmnopqrstuvwxyz"
Digits == "0123456789"

\* s.charCodeAt(i - 1) for the characters secrets are made of
charCodeAt(s, i) ==
    LET c == SubSeq(s, i, i)
        lower == {k \in 1..Len(LowerCase) : SubSeq(LowerCase, k, k) = c}
        digit == {k \in 1..Len(Digits) : SubSeq(Digits, k, k) = c}
    IN IF lower # {} THEN 96 + (CHOOSE k \in lower : TRUE)
       ELSE 47 + (CHOOSE k \in digit : TRUE)

\* The loop of secureCompare from index i on, with accumulator result
RECURSIVE compareLoop(_, _, _, _)
compareLoop(a, b, i, result) ==
    IF i > Len(a) THEN result
    ELSE compareLoop(a, b, i + 1,
                     BitOr(result, BitXor(charCodeAt(a, i), charCodeAt(b, i))))

\* secureCompare without the length test
secureCompare_noLength(a, b) ==
    IF typeof(a) # "string" \/ typeof(b) # "string" THEN FALSE
    ELSE compareLoop(a.v, b.v, 1, 0) = 0

secureCompare(a, b) ==
    IF typeof(a) # "string" \/ typeof(b) # "string" THEN FALSE
    ELSE IF Len(a.v) # Len(b.v) THEN FALSE
    ELSE compareLoop(a.v, b.v, 1, 0) = 0

jsonResponse(data, status) ==
    [status |-> status,
     body |-> Stringify(data, 2, 0),
     headers |-> [ContentType |-> "application/json",
                  AccessControlAllowOrigin |-> "*"]]

\* No response has been returned yet.
NoResponse ==
    [status |-> 0, body |-> "",
     headers |-> [ContentType |-> "", AccessControlAllowOrigin |-> ""]]

\* A catch block that also reports error.message
catchResponse_leaky(errorMessage) ==
    jsonResponse(Obj(<< <<"error", Str("Internal server error")>>,
                        <<"message", Str(errorMessage)>> >>), 500)

\* The catch block of handleWebhook
catchResponse(errorMessage) ==
    jsonResponse(Obj(<< <<"error", Str("Internal server error")>> >>), 500)

\* const repoOwner = env.GITHUB_REPO_OWNER || deploymentInfo.repoOwner || ...
\* parseDeploymentEvent returns no repoOwner and no repoName: both undefined.
repoOwnerOf(e) ==
    Or(Or(e.GITHUB_REPO_OWNER, Undefined), Str("TLC-Community-Survey"))

repoNameOf(e) == Or(Or(e.GITHUB_REPO_NAME, Undefined), Str("Survey"))

\* The commit URL derived whenever there is a hash
withCommitUrl_always(info, e) ==
    IF Truthy(info.commitHash)
    THEN [info EXCEPT !.commitUrl =
              getCommitUrl(repoOwnerOf(e), repoNameOf(e), info.commitHash)]
    ELSE info

\* deploymentInfo after lines 103-105: commitUrl filled in
withCommitUrl(info, e) ==
    IF Truthy(info.commitHash) /\ ~Truthy(info.commitUrl)
    THEN [info EXCEPT !.commitUrl =
              getCommitUrl(repoOwnerOf(e), repoNameOf(e), info.commitHash)]
    ELSE info

successResponse(info) ==
    jsonResponse(Obj(<< <<"success", Bool(TRUE)>>,
                        <<"deploymentId", info.id>>,
                        <<"status", info.status>> >>), 200)

skipResponse ==
    jsonResponse(Obj(<< <<"message",
        Str("Build still in progress, skipping notification")>> >>), 200)

(***************************************************************************)
(* Inputs: configurations, requests and payloads.                          *)
(***************************************************************************)
\* An object literal without the members that are absent
MkObj(pairs) == Obj(Defined(pairs))

NonObjects ==
    {Null, JsInt(5), JsInt(0), Str("deployment"), Str(""), Bool(TRUE), Bool(FALSE),
     Arr(<< >>), Arr(<<Str("status")>>), Obj(<< >>)}

\* new Date().toISOString()
Now == "2026-01-01T00:00:00.000Z"

Envs ==
    {[DISCORD_BOT_TOKEN |-> tok, DISCORD_CHANNEL_ID |-> chan,
      WEBHOOK_SECRET |-> sec, GITHUB_REPO_OWNER |-> repo[1],
      GITHUB_REPO_NAME |-> repo[2]] :
        tok \in {Undefined, Str("token")},
        chan \in {Undefined, Str("42")},
        sec \in {Undefined, Str("s3cr")},
        repo \in {<<Undefined, Undefined>>, <<Str("acme"), Str("site")>>}}

SecretHeaders == {Null, Str("s3cr"), Str("s3cx"), Str("x3cr"), Str("s3c")}

HandlerDeployments ==
    {MkObj(<< <<"id", i>>, <<"status", s>>, <<"commit_hash", h>>,
              <<"commit_url", u>>, <<"build_time", b>> >>) :
        i \in {Undefined, Str("d1")},
        s \in {Undefined, Str("success"), Str("failure"), Str("building")},
        h \in {Undefined, Str("abcdef1234"), JsInt(1234567)},
        u \in {Undefined, Str("https://example.com/c/1")},
        b \in {Undefined, JsInt(0), Num(57)}}

HandlerPayloads ==
    NonObjects \cup HandlerDeployments
    \cup {Obj(<< <<"deployment", d>> >>) : d \in HandlerDeployments}

\* A request: the X-Webhook-Secret header (null when absent) and the body,
\* which request.json() either rejects or parses to `json`.
Requests ==
    {[secretHeader |-> h, bodyOk |-> FALSE, json |-> Undefined] :
        h \in SecretHeaders}
    \cup {[secretHeader |-> h, bodyOk |-> TRUE, json |-> p] :
            h \in SecretHeaders, p \in HandlerPayloads}

NoRequest == [secretHeader |-> Null, bodyOk |-> FALSE, json |-> Undefined]

NoEnv ==
    [DISCORD_BOT_TOKEN |-> Undefined, DISCORD_CHANNEL_ID |-> Undefined,
     WEBHOOK_SECRET |-> Undefined, GITHUB_REPO_OWNER |-> Undefined,
     GITHUB_REPO_NAME |-> Undefined]

\* The keys parseDeploymentEvent reads from the deployment object, each with
\* the values the generated payloads give it.
KeyTable ==
    << <<"id", <<Str("d1"), JsInt(0)>> >>,
       <<"deployment_id", <<Str("d2"), Str("")>> >>,
       <<"project_name", <<Str("site"), Null>> >>,
       <<"environment", <<Str("preview"), Bool(FALSE)>> >>,
       <<"status", <<Str("success"), Str("failure"), Str("building"),
                     Str("SUCCESS"), JsInt(0)>> >>,
       <<"latest_stage", <<Null, Obj(<< >>),
                           Obj(<< <<"status", Str("success")>> >>),
                           Obj(<< <<"status", Str("failure")>> >>),
                           Obj(<< <<"status", Str("deploy")>> >>),
                           Obj(<< <<"status", Str("")>> >>)>> >>,
       <<"branch", <<Str("dev"), JsInt(0)>> >>,
       <<"git_branch", <<Str("feature"), Str("")>> >>,
       <<"commit_hash", <<Str("abcdef1234"), JsInt(1234567), Bool(FALSE)>> >>,
       <<"git_commit_hash", <<Str("0123456789"), Null>> >>,
       <<"commit_message", <<Str("fix the build"), Str("")>> >>,
       <<"commit_author", <<Str("alice"), JsInt(0)>> >>,
       <<"author", <<Str("bob"), Null>> >>,
       <<"url", <<Str("https://site.pages.dev"), Str("")>> >>,
       <<"deployment_url", <<Str("https://d2.site.pages.dev"), Bool(FALSE)>> >>,
       <<"build_logs_url", <<Str("https://logs.example/1"), Null>> >>,
       <<"logs_url", <<Str("https://logs.example/2"), Str("")>> >>,
       <<"commit_url", <<Str("https://example.com/c/1"), JsInt(0)>> >>,
       <<"build_time", <<JsInt(0), JsInt(65), Num(57), Bool(FALSE)>> >>,
       <<"duration", <<JsInt(30), JsInt(0), Null>> >>,
       <<"created_at", <<Str("2025-05-05T05:05:05Z"), Str("")>> >>,
       <<"created_on", <<Str("2024-04-04T04:04:04Z"), Null>> >>,
       <<"error", <<Str("boom"), Obj(<< <<"code", JsInt(1)>> >>), JsInt(0)>> >>,
       <<"build_error", <<Str("build failed"), Str("")>> >>,
       <<"error_message", <<Str("exit code 1"), Null>> >>,
       <<"message", <<Str("it broke"), Bool(FALSE)>> >>,
       <<"stages", <<Arr(<<Obj(<< <<"name", Str("build")>> >>)>>), Null>> >> >>

NKeys == Len(KeyTable)

\* The largest number of values KeyTable gives one key
MaxVals == CHOOSE m \in 1..10 :
              /\ \A i \in 1..NKeys : Len(KeyTable[i][2]) <= m
              /\ \E i \in 1..NKeys : Len(KeyTable[i][2]) = m

\* The value a payload that also nests a deployment gives a top-level key
TopVal(k) ==
    IF k = "status" THEN Str("failure")
    ELSE IF k = "build_time" THEN JsInt(65)
    ELSE IF k = "latest_stage" THEN Obj(<< <<"status", Str("failure")>> >>)
    ELSE Str("top-" \o k)

\* ks chooses keys of KeyTable in order, vs one value for each
WellFormedChoice(ks, vs) ==
    /\ \A i \in 1..(Len(ks) - 1) : ks[i] < ks[i + 1]
    /\ \A i \in 1..Len(ks) : vs[i] <= Len(KeyTable[ks[i]][2])

Members(ks, vs) ==
    [i \in 1..Len(ks) |-> <<KeyTable[ks[i]][1], KeyTable[ks[i]][2][vs[i]]>>]

\* The top-level member number t of a payload that nests its deployment
TopMember(t) ==
    IF t = 0 THEN << >>
    ELSE << <<KeyTable[t][1], TopVal(KeyTable[t][1])>> >>

\* What a payload can hold under `deployment` besides an object
PrimDeployments ==
    {Null, JsInt(0), Bool(FALSE), Str(""), Bool(TRUE), Str("x"), JsInt(7)}

\* The payloads the functions are applied to: non-objects; flat objects of
\* at most MaxFields members; the same nested under `deployment`, with or
\* without one top-level member; a non-object `deployment` beside at most
\* one member.  A payload holds at most MaxFields members in all.
GeneratedPayload(p) ==
    \/ p \in NonObjects
    \/ \E n \in 0..MaxFields : \E ks \in [1..n -> 1..NKeys] :
          /\ \A i \in 1..(n - 1) : ks[i] < ks[i + 1]
          /\ \E vs \in [1..n -> 1..MaxVals] :
                /\ WellFormedChoice(ks, vs)
                /\ \/ p = Obj(Members(ks, vs))
                   \/ p = Obj(<< <<"deployment", Obj(Members(ks, vs))>> >>)
                   \/ /\ n < MaxFields
                      /\ \E t \in 1..NKeys :
                            p = Obj(<< <<"deployment", Obj(Members(ks, vs))>> >>
                                    \o TopMember(t))
                   \/ /\ n <= 1
                      /\ \E d \in PrimDeployments :
                            p = Obj(<< <<"deployment", d>> >> \o Members(ks, vs))

(***************************************************************************)
(* State.                                                                  *)
(***************************************************************************)
VARIABLES
    cmp,             \* a call of secureCompare: arguments, loop state, result
    env,             \* the Worker's environment bindings
    request,         \* the inbound request
    pc,              \* position in the handler (or in the function pipeline)
    payload,         \* the parsed body
    valid,           \* what isValidPayload returned
    deploymentInfo,  \* the DeploymentInfo record
    embed,           \* the rendered notification
    calls,           \* the fetch calls made to the chat API, in order
    fetched,         \* what fetch settled with, NoOutcome until then
    thrown,          \* the message of the error that was thrown, "" if none
    response         \* the response returned, NoResponse until then

vars ==
    <<cmp, env, request, pc, payload, valid, deploymentInfo, embed, calls, fetched,
      thrown, response>>

\* No call of secureCompare is being followed.
NoCompare ==
    [a |-> Undefined, b |-> Undefined, i |-> 0, result |-> 0,
     comparisons |-> 0, returned |-> "pending"]

InitRest ==
    /\ cmp = NoCompare
    /\ payload = Undefined
    /\ valid = FALSE
    /\ deploymentInfo = Undefined
    /\ embed = Undefined
    /\ calls = << >>
    /\ fetched = NoOutcome
    /\ thrown = ""
    /\ response = NoResponse

Init ==
    /\ env \in Envs
    /\ request \in Requests
    /\ pc = "token"
    /\ InitRest

\* return jsonResponse(...)
Return(r) == response' = r /\ pc' = "done"

\* lines 55-58
CheckBotToken ==
    /\ pc = "token"
    /\ IF ~Truthy(env.DISCORD_BOT_TOKEN)
       THEN Return(jsonResponse(
                Obj(<< <<"error", Str("Bot token not configured")>> >>), 500))
       ELSE pc' = "channel" /\ UNCHANGED response
    /\ UNCHANGED <<cmp, env, request, payload, valid, deploymentInfo, embed, calls,
                   fetched, thrown>>

\* lines 60-63
CheckChannelId ==
    /\ pc = "channel"
    /\ IF ~Truthy(env.DISCORD_CHANNEL_ID)
       THEN Return(jsonResponse(
                Obj(<< <<"error", Str("Discord channel ID not configured")>> >>),
                500))
       ELSE pc' = "secret" /\ UNCHANGED response
    /\ UNCHANGED <<cmp, env, request, payload, valid, deploymentInfo, embed, calls,
                   fetched, thrown>>

\* A secret check that warns and carries on
CheckWebhookSecret_logOnly ==
    /\ pc = "secret"
    /\ pc' = "json"
    /\ UNCHANGED <<cmp, env, request, payload, valid, deploymentInfo, embed, calls,
                   fetched, thrown, response>>

\* lines 66-72
CheckWebhookSecret ==
    /\ pc = "secret"
    /\ IF /\ Truthy(env.WEBHOOK_SECRET)
          /\ ~secureCompare(request.secretHeader, env.WEBHOOK_SECRET)
       THEN Return(jsonResponse(Obj(<< <<"error", Str("Unauthorized")>> >>), 401))
       ELSE pc' = "json" /\ UNCHANGED response
    /\ UNCHANGED <<cmp, env, request, payload, valid, deploymentInfo, embed, calls,
                   fetched, thrown>>

\* lines 75-81: await request.json()
ParseBody ==
    /\ pc = "json"
    /\ IF ~request.bodyOk
       THEN /\ Return(jsonResponse(
                   Obj(<< <<"error", Str("Invalid JSON payload")>> >>), 400))
            /\ UNCHANGED payload
       ELSE /\ payload' = request.json
            /\ pc' = "validate"
            /\ UNCHANGED response
    /\ UNCHANGED <<cmp, env, request, valid, deploymentInfo, embed, calls, fetched,
                   thrown>>

\* lines 84-87
ValidatePayload ==
    /\ pc = "validate"
    /\ valid' = isValidPayload(payload)
    /\ IF ~valid'
       THEN Return(jsonResponse(
                Obj(<< <<"error", Str("Invalid payload structure")>> >>), 400))
       ELSE pc' = "normalize" /\ UNCHANGED response
    /\ UNCHANGED <<cmp, env, request, payload, deploymentInfo, embed, calls, fetched,
                   thrown>>

\* line 90, and the catch block of lines 127-134
Normalize ==
    /\ pc = "normalize"
    /\ IF parseDeploymentEventThrows(payload)
       THEN /\ thrown' = "Cannot read properties of null"
            /\ Return(catchResponse(thrown'))
            /\ UNCHANGED deploymentInfo
       ELSE /\ deploymentInfo' = parseDeploymentEvent(payload, Now)
            /\ pc' = "commitUrl"
            /\ UNCHANGED <<thrown, response>>
    /\ UNCHANGED <<cmp, env, request, payload, valid, embed, calls, fetched>>

\* lines 92-105: derive the commit URL when the record has a hash and no URL
FillCommitUrl ==
    /\ pc = "commitUrl"
    /\ deploymentInfo' = withCommitUrl(deploymentInfo, env)
    /\ pc' = "classify"
    /\ UNCHANGED <<cmp, env, request, payload, valid, embed, calls, fetched,
                   thrown, response>>

\* lines 108-111
SkipNonTerminal ==
    /\ pc = "classify"
    /\ IF ~deploymentInfo.isSuccess /\ ~deploymentInfo.isFailure
       THEN Return(skipResponse)
       ELSE pc' = "send" /\ UNCHANGED response
    /\ UNCHANGED <<cmp, env, request, payload, valid, deploymentInfo, embed, calls,
                   fetched, thrown>>

\* The renderer called outside the try block: its TypeError escapes
SendBuildNotification_noCatch ==
    /\ pc = "send"
    /\ IF createBuildEmbedThrows(deploymentInfo)
       THEN /\ thrown' = "substring is not a function"
            /\ pc' = "escaped"
            /\ UNCHANGED <<embed, calls, response>>
       ELSE /\ embed' = createBuildEmbed(deploymentInfo)
            /\ calls' = Append(calls,
                   sendMessageRequest(env.DISCORD_BOT_TOKEN,
                                      env.DISCORD_CHANNEL_ID,
                                      buildNotificationMessage(deploymentInfo)))
            /\ pc' = "fetch"
            /\ UNCHANGED <<thrown, response>>
    /\ UNCHANGED <<cmp, env, request, payload, valid, deploymentInfo, fetched>>

\* lines 114-117 up to the await of fetch in sendMessage: render the embed
\* and issue the request.
SendBuildNotification ==
    /\ pc = "send"
    /\ IF createBuildEmbedThrows(deploymentInfo)
       THEN /\ thrown' = "substring is not a function"
            /\ Return(catchResponse(thrown'))
            /\ UNCHANGED <<embed, calls>>
       ELSE /\ embed' = createBuildEmbed(deploymentInfo)
            /\ calls' = Append(calls,
                   sendMessageRequest(env.DISCORD_BOT_TOKEN,
                                      env.DISCORD_CHANNEL_ID,
                                      buildNotificationMessage(deploymentInfo)))
            /\ pc' = "fetch"
            /\ UNCHANGED <<thrown, response>>
    /\ UNCHANGED <<cmp, env, request, payload, valid, deploymentInfo, fetched>>

\* fetch settles: sendMessage returns or throws, then lines 119-125 or the
\* catch block of lines 127-134.
FetchSettles ==
    /\ pc = "fetch"
    /\ \E o \in FetchOutcomes :
          /\ fetched' = o
          /\ thrown' = sendMessageError(o)
          /\ IF thrown' = ""
             THEN Return(successResponse(deploymentInfo))
             ELSE Return(catchResponse(thrown'))
    /\ UNCHANGED <<cmp, env, request, payload, valid, deploymentInfo, embed, calls>>

Next ==
    \/ CheckBotToken
    \/ CheckChannelId
    \/ CheckWebhookSecret
    \/ ParseBody
    \/ ValidatePayload
    \/ Normalize
    \/ FillCommitUrl
    \/ SkipNonTerminal
    \/ SendBuildNotification
    \/ FetchSettles

Spec == Init /\ [][Next]_vars


(***************************************************************************)
(* The request router (the worker's fetch handler) in front of the webhook *)
(* handler.                                                                *)
(***************************************************************************)
\* request.url, parsed: the path as written and the query string
Urls ==
    {[path |-> "/health", search |-> ""],
     [path |-> "/health", search |-> "?verbose=1"],
     [path |-> "/webhook", search |-> ""],
     [path |-> "/", search |-> ""],
     [path |-> "", search |-> ""],
     [path |-> "/webhook/", search |-> ""],
     [path |-> "/Health", search |-> ""],
     [path |-> "/healthz", search |-> ""],
     [path |-> "/favicon.ico", search |-> ""]}

Methods == {"GET", "HEAD", "POST", "OPTIONS", "PUT", "DELETE", "PATCH"}

\* new URL(request.url).pathname: the path without the query string; a URL
\* with no path has the pathname "/"
pathnameOf(url) == IF url.path = "" THEN "/" ELSE url.path

\* new Response(null, {status: 204, headers: {...}})
preflightResponse ==
    [status |-> 204,
     body |-> "",
     headers |-> [AccessControlAllowOrigin |-> "*",
                  AccessControlAllowMethods |-> "POST, OPTIONS",
                  AccessControlAllowHeaders |->
                      "Content-Type, Authorization, X-Webhook-Secret"]]

methodNotAllowed ==
    jsonResponse(Obj(<< <<"error", Str("Method not allowed")>> >>), 405)

healthResponse ==
    jsonResponse(Obj(<< <<"status", Str("ok")>>,
                        <<"service", Str("cocs-bot")>> >>), 200)

notFound == jsonResponse(Obj(<< <<"error", Str("Not found")>> >>), 404)

\* The bodies and secret headers of the routed requests
RouterPayloads ==
    {Obj(<< >>),
     Obj(<< <<"status", Str("success")>> >>),
     Obj(<< <<"status", Str("building")>> >>),
     Obj(<< <<"status", Str("failure")>>,
            <<"commit_hash", Str("abcdef1234")>> >>),
     Obj(<< <<"status", Str("success")>>,
            <<"commit_hash", JsInt(1234567)>> >>)}

RouterBodies ==
    {r \in Requests :
        /\ r.secretHeader \in {Null, Str("s3cr"), Str("s3cx")}
        /\ r.bodyOk => r.json \in RouterPayloads}

RoutedRequests ==
    {[url |-> u, method |-> m, secretHeader |-> r.secretHeader,
      bodyOk |-> r.bodyOk, json |-> r.json] :
        u \in Urls, m \in Methods, r \in RouterBodies}

InitRouter ==
    /\ env \in Envs
    /\ request \in RoutedRequests
    /\ pc = "route"
    /\ InitRest

\* A router that answers every CORS preflight before looking at the path
fetch_preflightFirst ==
    /\ pc = "route"
    /\ LET pathname == pathnameOf(request.url)
       IN IF request.method = "OPTIONS" THEN Return(preflightResponse)
          ELSE IF pathname = "/health"
          THEN IF request.method # "GET" /\ request.method # "HEAD"
               THEN Return(methodNotAllowed)
               ELSE Return(healthResponse)
          ELSE IF pathname = "/webhook" \/ pathname = "/"
          THEN IF request.method # "POST"
               THEN Return(methodNotAllowed)
               ELSE pc' = "token" /\ UNCHANGED response
          ELSE Return(notFound)
    /\ UNCHANGED <<cmp, env, request, payload, valid, deploymentInfo, embed, calls,
                   fetched, thrown>>

fetch ==
    /\ pc = "route"
    /\ LET pathname == pathnameOf(request.url)
       IN IF pathname = "/health"
          THEN IF request.method # "GET" /\ request.method # "HEAD"
               THEN Return(methodNotAllowed)
               ELSE Return(healthResponse)
          ELSE IF pathname = "/webhook" \/ pathname = "/"
          THEN IF request.method = "OPTIONS"
               THEN Return(preflightResponse)
               ELSE IF request.method # "POST"
               THEN Return(methodNotAllowed)
               ELSE pc' = "token" /\ UNCHANGED response
          ELSE Return(notFound)
    /\ UNCHANGED <<cmp, env, request, payload, valid, deploymentInfo, embed, calls,
                   fetched, thrown>>

NextRouter == fetch \/ Next

\* The webhook handler on the bodies and headers of the routed requests
InitFair ==
    /\ env \in Envs
    /\ request \in RouterBodies
    /\ pc = "token"
    /\ InitRest

\* The handler keeps running: each statement is executed once it is reached,
\* and the awaited request.json() and fetch settle.
SpecFair == InitFair /\ [][Next]_vars /\ WF_vars(Next)

SpecRouter == InitRouter /\ [][NextRouter]_vars

(***************************************************************************)
(* secureCompare, one loop iteration per step.                             *)
(***************************************************************************)
\* The longest string compared
MaxSecretLen == 3

RECURSIVE StringsOfLength(_)
StringsOfLength(n) ==
    IF n = 0 THEN {""}
    ELSE {s \o c : s \in StringsOfLength(n - 1), c \in {"a", "b"}}

\* A header that is absent (null), non-string values, and every string over
\* two characters up to the longest
CompareArguments ==
    {Null, Undefined, JsInt(5)}
    \cup {Str(s) : s \in UNION {StringsOfLength(n) : n \in 0..MaxSecretLen}}

InitCompare ==
    /\ \E a \in CompareArguments, b \in CompareArguments :
          cmp = [NoCompare EXCEPT !.a = a, !.b = b]
    /\ env = NoEnv
    /\ request = NoRequest
    /\ pc = "secureCompare"
    /\ payload = Undefined
    /\ valid = FALSE
    /\ deploymentInfo = Undefined
    /\ embed = Undefined
    /\ calls = << >>
    /\ fetched = NoOutcome
    /\ thrown = ""
    /\ response = NoResponse

CompareFrame ==
    UNCHANGED <<env, request, payload, valid, deploymentInfo, embed, calls,
                fetched, thrown, response>>

\* The two early returns, then let result = 0 and i = 0
CompareEnter ==
    /\ pc = "secureCompare"
    /\ IF typeof(cmp.a) # "string" \/ typeof(cmp.b) # "string"
       THEN cmp' = [cmp EXCEPT !.returned = "false"] /\ pc' = "compared"
       ELSE IF Len(cmp.a.v) # Len(cmp.b.v)
       THEN cmp' = [cmp EXCEPT !.returned = "false"] /\ pc' = "compared"
       ELSE cmp' = [cmp EXCEPT !.result = 0, !.i = 0] /\ pc' = "loop"
    /\ CompareFrame

\* One iteration: result |= a.charCodeAt(i) ^ b.charCodeAt(i); i++
CompareIterate ==
    /\ pc = "loop"
    /\ cmp.i < Len(cmp.a.v)
    /\ cmp' = [cmp EXCEPT
                 !.result = BitOr(cmp.result,
                                  BitXor(charCodeAt(cmp.a.v, cmp.i + 1),
                                         charCodeAt(cmp.b.v, cmp.i + 1))),
                 !.i = cmp.i + 1,
                 !.comparisons = cmp.comparisons + 1]
    /\ pc' = "loop"
    /\ CompareFrame

\* A loop that is left at the first mismatch
CompareReturn_earlyExit ==
    /\ pc = "loop"
    /\ cmp.i >= Len(cmp.a.v) \/ cmp.result # 0
    /\ cmp' = [cmp EXCEPT
                 !.returned = IF cmp.result = 0 THEN "true" ELSE "false"]
    /\ pc' = "compared"
    /\ CompareFrame

\* The loop is over: return result === 0
CompareReturn ==
    /\ pc = "loop"
    /\ cmp.i >= Len(cmp.a.v)
    /\ cmp' = [cmp EXCEPT
                 !.returned = IF cmp.result = 0 THEN "true" ELSE "false"]
    /\ pc' = "compared"
    /\ CompareFrame

NextCompare == CompareEnter \/ CompareIterate \/ CompareReturn

SpecCompare == InitCompare /\ [][NextCompare]_vars

(***************************************************************************)
(* The pure functions applied to generated payloads: isValidPayload, then  *)
(* parseDeploymentEvent, then createBuildEmbed.                            *)
(***************************************************************************)
InitPipeline ==
    /\ cmp = NoCompare
    /\ env = NoEnv
    /\ request = NoRequest
    /\ pc = "isValidPayload"
    /\ GeneratedPayload(payload)
    /\ valid = FALSE
    /\ deploymentInfo = Undefined
    /\ embed = Undefined
    /\ calls = << >>
    /\ fetched = NoOutcome
    /\ thrown = ""
    /\ response = NoResponse

CallIsValidPayload ==
    /\ pc = "isValidPayload"
    /\ valid' = isValidPayload(payload)
    /\ pc' = "parseDeploymentEvent"
    /\ UNCHANGED <<cmp, env, request, payload, deploymentInfo, embed, calls, fetched,
                   thrown, response>>

CallParseDeploymentEvent ==
    /\ pc = "parseDeploymentEvent"
    /\ IF parseDeploymentEventThrows(payload)
       THEN /\ thrown' = "Cannot read properties of null"
            /\ pc' = "threw"
            /\ UNCHANGED deploymentInfo
       ELSE /\ deploymentInfo' = parseDeploymentEvent(payload, Now)
            /\ pc' = "createBuildEmbed"
            /\ UNCHANGED thrown
    /\ UNCHANGED <<cmp, env, request, payload, valid, embed, calls, fetched,
                   response>>

CallCreateBuildEmbed ==
    /\ pc = "createBuildEmbed"
    /\ IF createBuildEmbedThrows(deploymentInfo)
       THEN /\ thrown' = "substring is not a function"
            /\ pc' = "threw"
            /\ UNCHANGED embed
       ELSE /\ embed' = createBuildEmbed(deploymentInfo)
            /\ pc' = "rendered"
            /\ UNCHANGED thrown
    /\ UNCHANGED <<cmp, env, request, payload, valid, deploymentInfo, calls,
                   fetched, response>>

NextPipeline ==
    \/ CallIsValidPayload
    \/ CallParseDeploymentEvent
    \/ CallCreateBuildEmbed

SpecPipeline == InitPipeline /\ [][NextPipeline]_vars

(***************************************************************************)
(* createBuildEmbed applied to DeploymentInfo records of the types of the  *)
(* data model.                                                             *)
(***************************************************************************)
\* A commit message of n characters
RECURSIVE Message(_)
Message(n) ==
    IF n <= 10 THEN SubSeq("0123456789", 1, n)
    ELSE "0123456789" \o Message(n - 10)

\* Lengths of the long commit messages: at, just over and well over the limit
MessageLengths == {200, 201, 250}

InitRender ==
    /\ cmp = NoCompare
    /\ env = NoEnv
    /\ request = NoRequest
    /\ pc = "createBuildEmbed"
    /\ payload = Undefined
    /\ valid = FALSE
    /\ \E status \in {Str("success"), Str("failure"), Str("building")},
          branch \in {Str(""), Str("main")},
          commitHash \in {Str(""), Str("abcdef1234")},
          commitMessage \in {Str(""), Str("fix the build")}
                            \cup {Str(Message(n)) : n \in MessageLengths},
          commitAuthor \in {Str(""), Str("alice")},
          deploymentUrl \in {Str(""), Str("https://site.pages.dev")},
          buildLogsUrl \in {Str(""), Str("https://logs.example/1")},
          commitUrl \in {Str(""), Str("https://example.com/c/1")},
          buildTime \in {Null, JsInt(0), Num(57), JsInt(65)},
          error \in {Null, Str("boom"), Obj(<< <<"code", JsInt(1)>> >>)},
          errorMessage \in {Null, Str("exit code 1")} :
          deploymentInfo =
              [id |-> Str("d1"),
               projectName |-> Str("site"),
               environment |-> Str("production"),
               status |-> status,
               isSuccess |-> (status = Str("success")),
               isFailure |-> (status = Str("failure")),
               branch |-> branch,
               commitHash |-> commitHash,
               commitMessage |-> commitMessage,
               commitAuthor |-> commitAuthor,
               deploymentUrl |-> deploymentUrl,
               buildLogsUrl |-> buildLogsUrl,
               commitUrl |-> commitUrl,
               buildTime |-> buildTime,
               createdAt |-> Str(Now),
               error |-> error,
               errorMessage |-> errorMessage,
               stages |-> Arr(<< >>),
               latestStage |-> Null,
               raw |-> Obj(<< >>)]
    /\ embed = Undefined
    /\ calls = << >>
    /\ fetched = NoOutcome
    /\ thrown = ""
    /\ response = NoResponse

NextRender == CallCreateBuildEmbed

SpecRender == InitRender /\ [][NextRender]_vars

(***************************************************************************)
(* Properties of the webhook handler (specification Spec).                 *)
(***************************************************************************)
Configured == Truthy(env.DISCORD_BOT_TOKEN) /\ Truthy(env.DISCORD_CHANNEL_ID)

SecretConfigured == Truthy(env.WEBHOOK_SECRET)

\* The X-Webhook-Secret header is the configured secret
SecretMatches == request.secretHeader = env.WEBHOOK_SECRET

SecretPassed == ~SecretConfigured \/ SecretMatches

Terminal(info) == info.isSuccess \/ info.isFailure

BodyText(r) == r.body

SkipText ==
    "{\n  \"message\": \"Build still in progress, skipping notification\"\n}"

GenericErrorText == "{\n  \"error\": \"Internal server error\"\n}"

\* C1: the response of the webhook handler is decided by the first failing
\* step of the order configuration (500), secret (401), JSON parsing (400),
\* validation (400), non-terminal status (200 with the skip message),
\* whatever the later steps would have found.
C1_FirstFailingStepDecides ==
    pc = "done" =>
        IF ~Configured THEN response.status = 500
        ELSE IF SecretConfigured /\ ~SecretMatches THEN response.status = 401
        ELSE IF ~request.bodyOk THEN response.status = 400
        ELSE IF ~isValidPayload(request.json) THEN response.status = 400
        ELSE IF ~Terminal(parseDeploymentEvent(request.json, Now))
        THEN response.status = 200 /\ BodyText(response) = SkipText
        ELSE TRUE

\* A request that fails three steps at once: the channel id is missing, the
\* secret header is wrong and the body is malformed; it was answered 500.
C1_Witness ==
    /\ pc = "done"
    /\ Truthy(env.DISCORD_BOT_TOKEN)
    /\ ~Truthy(env.DISCORD_CHANNEL_ID)
    /\ SecretConfigured /\ ~SecretMatches
    /\ ~request.bodyOk
    /\ response.status = 500

\* C2: a delivery call is made only if both required secrets are configured,
\* the secret check passed, the body parsed, the validator accepted the
\* payload and the normalized status is terminal; a request answered 401 and
\* a request that was skipped made no delivery call.
C2_DeliveryOnlyAfterAllChecks ==
    /\ calls # << >> =>
          /\ Configured
          /\ SecretPassed
          /\ request.bodyOk /\ payload = request.json
          /\ valid
          /\ deploymentInfo # Undefined /\ Terminal(deploymentInfo)
    /\ response.status = 401 => calls = << >>
    /\ (response.status = 200 /\ BodyText(response) = SkipText) => calls = << >>

\* A request with a configured and matching secret whose notification was
\* delivered and acknowledged.
C2_Witness ==
    /\ pc = "done"
    /\ SecretConfigured /\ SecretMatches
    /\ Len(calls) = 1
    /\ response.status = 200

\* The response {success: true, deploymentId, status} of lines 121-125
IsSuccessResponse(r) ==
    /\ r.status = 200
    /\ r.body = Stringify(Obj(<< <<"success", Bool(TRUE)>>,
                                 <<"deploymentId", deploymentInfo.id>>,
                                 <<"status", deploymentInfo.status>> >>), 2, 0)

\* C3: for every payload that passes the validator and whose normalized
\* status is terminal, with the secrets configured and the secret check
\* passed, the handler renders the notification and makes exactly one
\* delivery call, and it responds 200 with {success, deploymentId, status}
\* if and only if that call returned a 2xx response.
C3_TerminalPayloadIsDelivered ==
    (/\ pc = "done"
     /\ Configured /\ SecretPassed
     /\ request.bodyOk /\ isValidPayload(request.json)
     /\ Terminal(parseDeploymentEvent(request.json, Now)))
    => /\ embed # Undefined
       /\ Len(calls) = 1
       /\ IsSuccessResponse(response) <=> ResponseOk(fetched)

\* C4: when the delivery call returns a non-2xx response, or any other error
\* is raised, the handler responds 500 with the generic error text and
\* nothing else, and at most one delivery call is made per request.
C4_ErrorsGiveGeneric500 ==
    /\ Len(calls) <= 1
    /\ (pc = "done" /\ (thrown # "" \/ (fetched.kind = "response"
                                        /\ ~ResponseOk(fetched))))
       => /\ response.status = 500
          /\ BodyText(response) = GenericErrorText

\* The chat API answered 403 to the one delivery call; the handler answered
\* 500.
C4_Witness ==
    /\ pc = "done"
    /\ fetched.kind = "response" /\ fetched.status = 403
    /\ Len(calls) = 1
    /\ thrown # ""
    /\ response.status = 500

(***************************************************************************)
(* Properties of the normalizer, the validator and the renderer            *)
(* (specifications SpecPipeline and SpecRender).                           *)
(***************************************************************************)
\* parseDeploymentEvent has returned its record
Parsed == deploymentInfo # Undefined

\* createBuildEmbed has returned its embed
Rendered == embed # Undefined

\* An absent value, as the specification defines it: undefined, null or the
\* empty string (0 and false are present).
Absent(x) == x = Undefined \/ x = Null \/ x = Str("")

\* payload.deployment
Nested == Get(payload, "deployment")

\* The object the specification reads as the deployment: the nested one,
\* the flat payload when there is none.
DeploymentRead == IF Absent(Nested) THEN payload ELSE Nested

StageStatus(d) == OptGet(Get(d, "latest_stage"), "status")

\* The candidate keys of each attribute, in priority order
AttrKeys ==
    [id |-> <<"id", "deployment_id">>,
     projectName |-> <<"project_name">>,
     environment |-> <<"environment">>,
     branch |-> <<"branch", "git_branch">>,
     commitHash |-> <<"commit_hash", "git_commit_hash">>,
     commitMessage |-> <<"commit_message">>,
     commitAuthor |-> <<"commit_author", "author">>,
     deploymentUrl |-> <<"url", "deployment_url">>,
     buildLogsUrl |-> <<"build_logs_url", "logs_url">>,
     commitUrl |-> <<"commit_url">>,
     buildTime |-> <<"build_time", "duration">>,
     createdAt |-> <<"created_at", "created_on">>,
     error |-> <<"error", "build_error">>,
     errorMessage |-> <<"error_message", "message">>,
     stages |-> <<"stages">>,
     latestStage |-> <<"latest_stage">>]

Attrs == DOMAIN AttrKeys

\* The values object d holds under the candidate keys of attribute a
CandidateVals(d, a) == {Get(d, AttrKeys[a][i]) : i \in DOMAIN AttrKeys[a]}

\* C5: isSuccess iff the status field equals "success", isFailure iff it
\* equals "failure", never both; and deployment.latest_stage.status =
\* "success" gives isSuccess and not isFailure whatever deployment.status is.
C5_StatusFlags ==
    Parsed =>
        /\ deploymentInfo.isSuccess <=> deploymentInfo.status = Str("success")
        /\ deploymentInfo.isFailure <=> deploymentInfo.status = Str("failure")
        /\ ~(deploymentInfo.isSuccess /\ deploymentInfo.isFailure)
        /\ StageStatus(Nested) = Str("success")
           => deploymentInfo.isSuccess /\ ~deploymentInfo.isFailure

\* deployment.latest_stage.status is "success" while deployment.status is
\* "failure", and the record says success.
C5_Witness ==
    /\ Parsed
    /\ StageStatus(Nested) = Str("success")
    /\ Get(Nested, "status") = Str("failure")
    /\ deploymentInfo.isSuccess /\ ~deploymentInfo.isFailure

\* C6: a candidate value is absent exactly when it is undefined, null or the
\* empty string; 0 and false are present, so an attribute whose first
\* candidate key holds a present value resolves to that value (build_time = 0
\* with duration = 30 resolves buildTime to 0).
C6_ZeroAndFalseArePresent ==
    Parsed =>
        \A a \in Attrs :
            LET first == Get(DeploymentRead, AttrKeys[a][1])
            IN ~Absent(first) => deploymentInfo[a] = first

\* C7: the nested value wins: when payload.deployment and the top level both
\* hold a non-empty value (not undefined, null or "") for a key, the attribute's value is one found under
\* payload.deployment; no attribute is read from the flat payload unless
\* payload.deployment is absent (projectName alone has the top-level
\* project_name as a further candidate); latest_stage.status wins over
\* status, and "unknown" is used only when both are absent.
C7_NestedWins ==
    Parsed =>
        /\ ~Absent(Nested) =>
              \A a \in Attrs : \A i \in DOMAIN AttrKeys[a] :
                  LET k == AttrKeys[a][i]
                  IN ~Absent(Get(payload, k)) =>
                        /\ ~Absent(Get(Nested, k))
                           => /\ deploymentInfo[a] \in CandidateVals(Nested, a)
                              /\ ~Absent(deploymentInfo[a])
                        /\ (a # "projectName"
                            /\ Get(payload, k) \notin CandidateVals(Nested, a))
                           => deploymentInfo[a] # Get(payload, k)
        /\ LET stage == StageStatus(DeploymentRead)
               plain == Get(DeploymentRead, "status")
           IN /\ ~Absent(stage) => deploymentInfo.status = stage
              /\ (Absent(stage) /\ ~Absent(plain))
                 => deploymentInfo.status = plain
              /\ deploymentInfo.status = Str("unknown")
                 => Absent(stage) /\ Absent(plain)

\* The value is a sub-object
SubObject(x) == x.t \in {"object", "array"}

EmbedFields == Get(embed, "fields").v

FieldNames == [i \in DOMAIN EmbedFields |-> Get(EmbedFields[i], "name").v]

HasField(name) == \E i \in DOMAIN FieldNames : FieldNames[i] = name

FieldValue(name) ==
    Get(EmbedFields[CHOOSE i \in DOMAIN FieldNames : FieldNames[i] = name],
        "value")

\* C9: a payload describing a zero-second build (build_time = 0, no other
\* duration) produces a notification whose Build Time field is present and
\* shows "N/A".
C9_ZeroSecondBuildShowsNA ==
    (/\ Rendered
     /\ Get(DeploymentRead, "build_time") = JsInt(0)
     /\ Absent(Get(DeploymentRead, "duration")))
    => /\ HasField("Build Time")
       /\ FieldValue("Build Time") = Str("N/A")

FieldOrder ==
    <<"Branch", "Commit", "Build Time", "Author", "Commit Message",
      "Deployment", "Build Logs", "Error Details">>

Position(name) == CHOOSE p \in DOMAIN FieldOrder : FieldOrder[p] = name

\* C10: the fields of the embed are a subsequence of the fixed order; each
\* appears at most once and exactly when its source value is non-empty
\* (Build Time: when buildTime is not null; Error Details: when isFailure and
\* error is present); Commit Message and Error Details are block fields, all
\* others inline.
C10_FieldsFollowFixedOrder ==
    Rendered =>
        /\ \A i \in DOMAIN FieldNames :
              \E p \in DOMAIN FieldOrder : FieldOrder[p] = FieldNames[i]
        /\ \A i, j \in DOMAIN FieldNames :
              i < j => Position(FieldNames[i]) < Position(FieldNames[j])
        /\ HasField("Branch") <=> ~Absent(deploymentInfo.branch)
        /\ HasField("Commit") <=> ~Absent(deploymentInfo.commitHash)
        /\ HasField("Build Time") <=> deploymentInfo.buildTime # Null
        /\ HasField("Author") <=> ~Absent(deploymentInfo.commitAuthor)
        /\ HasField("Commit Message") <=> ~Absent(deploymentInfo.commitMessage)
        /\ HasField("Deployment") <=> ~Absent(deploymentInfo.deploymentUrl)
        /\ HasField("Build Logs") <=> ~Absent(deploymentInfo.buildLogsUrl)
        /\ HasField("Error Details")
           <=> (deploymentInfo.isFailure /\ ~Absent(deploymentInfo.error))
        /\ \A i \in DOMAIN FieldNames :
              Get(EmbedFields[i], "inline")
              = Bool(FieldNames[i] \notin {"Commit Message", "Error Details"})

\* A failed build with every source value present: all eight fields.
C10_Witness ==
    /\ Rendered
    /\ deploymentInfo.isFailure
    /\ Len(EmbedFields) = 8
    /\ FieldNames = FieldOrder

\* The presentation of a status class: color, glyph, label
Presentation(color, glyph, label) ==
    /\ Get(embed, "color") = JsInt(color)
    /\ Get(embed, "title")
       = Str(glyph \o " Build " \o label \o " - "
             \o ToStr(deploymentInfo.projectName))

\* C11: createBuildEmbed classifies three ways. isSuccess: green (0x00ff00),
\* check glyph, "Success", the fixed success sentence. isFailure and not
\* isSuccess: red (0xff0000), cross glyph, "Failure", and the description shows
\* the error message when one is present, else the raw status. Anything else:
\* yellow (0xffff00), warning glyph, "Unknown", the raw status. Color, glyph
\* and label always belong to the same class.
C11_ThreeWayPresentation ==
    Rendered =>
        LET description == Get(embed, "description")
            rawStatus == Str("Build status: " \o ToStr(deploymentInfo.status))
        IN /\ deploymentInfo.isSuccess =>
                 /\ Presentation(65280, ":white_check_mark:", "Success")
                 /\ description = Str("Build completed successfully")
           /\ (deploymentInfo.isFailure /\ ~deploymentInfo.isSuccess) =>
                 /\ Presentation(16711680, ":x:", "Failure")
                 /\ description
                    = IF ~Absent(deploymentInfo.errorMessage)
                      THEN Str("**Error:** "
                               \o ToStr(deploymentInfo.errorMessage))
                      ELSE rawStatus
           /\ (~deploymentInfo.isSuccess /\ ~deploymentInfo.isFailure) =>
                 /\ Presentation(16776960, ":warning:", "Unknown")
                 /\ description = rawStatus
           /\ \/ Presentation(65280, ":white_check_mark:", "Success")
              \/ Presentation(16711680, ":x:", "Failure")
              \/ Presentation(16776960, ":warning:", "Unknown")

\* A failed build with an error message, rendered red with its message.
C11_Witness ==
    /\ Rendered
    /\ deploymentInfo.isFailure
    /\ deploymentInfo.errorMessage = Str("exit code 1")
    /\ Get(embed, "color") = JsInt(16711680)
    /\ Get(embed, "description") = Str("**Error:** exit code 1")

\* C12: a commit message of length n is shown unchanged when n <= 200 and as
\* its first 197 characters followed by "..." when n > 200, so the Commit
\* Message field value is never longer than 200 characters.
C12_CommitMessageTruncation ==
    (Rendered /\ Truthy(deploymentInfo.commitMessage)) =>
        LET message == deploymentInfo.commitMessage.v
            n == Len(message)
            value == FieldValue("Commit Message")
        IN /\ HasField("Commit Message")
           /\ n <= 200 => value = Str(message)
           /\ n > 200 => value = Str(SubSeq(message, 1, 197) \o "...")
           /\ Len(value.v) <= 200

\* A message of 201 characters has been cut to 200.
C12_Witness ==
    /\ Rendered
    /\ Len(deploymentInfo.commitMessage.v) = 201
    /\ Len(FieldValue("Commit Message").v) = 200

(***************************************************************************)
(* Properties of the request router (specification SpecRouter).            *)
(***************************************************************************)
\* The router has decided
Routed == pc # "route"

\* The webhook handler has not been entered
NotIngested ==
    /\ pc = "done"
    /\ payload = Undefined
    /\ calls = << >>

Answered(status, body) ==
    /\ NotIngested
    /\ response.status = status
    /\ response.body = body

\* C13: /health answers GET and HEAD with 200 and {status: "ok", service:
\* "cocs-bot"} and every other method with 405; /webhook and / answer OPTIONS
\* with 204, hand POST to the webhook handler and answer every other method
\* with 405; every other path answers 404 whatever the method.
C13_RouterTable ==
    Routed =>
        LET path == IF request.url.path = "" THEN "/" ELSE request.url.path
            method == request.method
        IN IF path = "/health"
           THEN IF method \in {"GET", "HEAD"}
                THEN Answered(200,
                         "{\n  \"status\": \"ok\",\n  \"service\": \"cocs-bot\"\n}")
                ELSE response.status = 405 /\ NotIngested
           ELSE IF path \in {"/webhook", "/"}
           THEN IF method = "OPTIONS"
                THEN Answered(204, "")
                ELSE IF method = "POST"
                THEN pc = "done" => response.status \in {200, 400, 401, 500}
                ELSE response.status = 405 /\ NotIngested
           ELSE Answered(404, "{\n  \"error\": \"Not found\"\n}")

\* An OPTIONS request to an unknown path has been answered 404.
C13_Witness ==
    /\ Routed
    /\ request.url.path = "/favicon.ico"
    /\ request.method = "OPTIONS"
    /\ response.status = 404

(***************************************************************************)
(* Further properties of the webhook handler (specification Spec).         *)
(***************************************************************************)
\* C14: with GITHUB_REPO_OWNER and GITHUB_REPO_NAME not configured, the
\* commit URL derived for a payload without commit_url is the one of the
\* documented defaults: https://github.com/fringemonkey/cocs-bot/commit/{hash}.
C14_DocumentedRepoDefaults ==
    (/\ Parsed
     /\ pc # "commitUrl"
     /\ ~Truthy(env.GITHUB_REPO_OWNER)
     /\ ~Truthy(env.GITHUB_REPO_NAME)
     /\ ~Truthy(Get(deploymentOf(payload), "commit_url"))
     /\ Truthy(deploymentInfo.commitHash))
    => deploymentInfo.commitUrl
       = Str("https://github.com/fringemonkey/cocs-bot/commit/"
             \o ToStr(deploymentInfo.commitHash))

(***************************************************************************)
(* Properties of secureCompare (specification SpecCompare).                *)
(***************************************************************************)
\* C15: secureCompare returns true iff both arguments are strings of equal
\* length with identical characters (a null header is rejected), and for two
\* strings of equal length n the loop performs exactly n character
\* comparisons, wherever the first mismatch lies and whether or not the
\* strings match.
C15_CompareScansEveryCharacter ==
    pc = "compared" =>
        LET bothStrings == cmp.a.t = "string" /\ cmp.b.t = "string"
        IN /\ cmp.returned = "true" <=> (bothStrings /\ cmp.a.v = cmp.b.v)
           /\ cmp.returned = "false" <=> ~(bothStrings /\ cmp.a.v = cmp.b.v)
           /\ (cmp.returned = "true") = secureCompare(cmp.a, cmp.b)
           /\ (bothStrings /\ Len(cmp.a.v) = Len(cmp.b.v))
              => cmp.comparisons = Len(cmp.a.v)

\* Two strings of the longest length that differ in their first character
\* have been compared to the end.
C15_Witness ==
    /\ pc = "compared"
    /\ cmp.a.t = "string" /\ cmp.b.t = "string"
    /\ Len(cmp.a.v) = MaxSecretLen
    /\ Len(cmp.b.v) = MaxSecretLen
    /\ SubSeq(cmp.a.v, 1, 1) # SubSeq(cmp.b.v, 1, 1)
    /\ cmp.returned = "false"
    /\ cmp.comparisons = MaxSecretLen

\* C16: once parseDeploymentEvent has returned, the handler changes nothing
\* in the DeploymentInfo except commitUrl, and commitUrl only when commitHash
\* is non-empty and commitUrl is empty: a commit_url of the payload is never
\* overwritten, an empty commitHash leaves commitUrl empty, and every other
\* field (status, isSuccess, isFailure, raw, ...) stays what the normalizer
\* returned.
C16_OnlyCommitUrlIsFilledIn ==
    [][Parsed =>
          /\ \A f \in DOMAIN deploymentInfo \ {"commitUrl"} :
                deploymentInfo'[f] = deploymentInfo[f]
          /\ deploymentInfo'.commitUrl # deploymentInfo.commitUrl
             => /\ ~Absent(deploymentInfo.commitHash)
                /\ Absent(deploymentInfo.commitUrl)]_vars

\* The handler has derived the commit URL of a payload that had none.
C16_Witness ==
    /\ Parsed
    /\ pc = "classify"
    /\ Absent(Get(deploymentOf(payload), "commit_url"))
    /\ ~Absent(deploymentInfo.commitUrl)

\* C17: every invocation of the webhook handler ends with exactly one
\* response and never with an escaped exception: whatever the configuration,
\* headers, body and delivery outcome, it eventually returns a response whose
\* status is 200, 400, 401 or 500 (specification SpecFair).
C17_HandlerAlwaysResponds ==
    /\ <>(pc = "done")
    /\ [](pc = "done" <=> response # NoResponse)
    /\ [](pc = "done" => response.status \in {200, 400, 401, 500})
    /\ [](thrown # "" => pc = "done" /\ response.status = 500)
    /\ [][pc = "done" => pc' = "done" /\ response' = response]_vars

\* An exception was thrown and the handler has answered 500.
C17_Witness ==
    /\ pc = "done"
    /\ thrown # ""
    /\ response.status = 500

====
